---------------------------- MODULE Spec2Model ----------------------------
(***************************************************************************)
(* The Tezos account bridge of ledger-live-common                          *)
(* (src/families/tezos/bridge/libcore.js): draft lifecycle, the            *)
(* preparation pipeline, the status evaluator and the two memoized         *)
(* estimators (fees, gas/storage).                                         *)
(*                                                                         *)
(* JavaScript runs one callback at a time, so the code between two awaits  *)
(* is one atomic action; every await is a point where other callers may    *)
(* run.  Objects compared by reference (drafts) live in `heap` and are     *)
(* named by their index.                                                   *)
(***************************************************************************)
EXTENDS Integers, Sequences, FiniteSets, TLC

VARIABLES
    heap,        \* the drafts allocated so far; a draft reference is an index
    prov,        \* history: how each draft of the heap was made, from which
                 \* draft and, for updateTransaction, with which patch
    returned,    \* history: <<input, output>> of the prepareTransaction calls
    feePromises, \* the promises made by calculateFees' compute function
    feeCache,    \* calculateFees' LRU: <<key, promise>> pairs, oldest first
    estPromises, \* the promises made by estimateGasLimitAndStorage
    estCache,    \* estimateGasLimitAndStorage's LRU
    status,      \* the getTransactionStatus calls in flight, by caller
    prepare      \* the prepareTransaction calls in flight, by caller

vars == <<heap, prov, returned, feePromises, feeCache, estPromises, estCache,
          status, prepare>>

draftVars == <<heap, prov, returned>>
feeVars == <<feePromises, feeCache>>
estVars == <<estPromises, estCache>>

---------------------------------------------------------------------------
(* Bounds of the model *)

MaxDrafts == 5        \* drafts ever allocated
MaxFeePromises == 4   \* fee computations ever started
MaxEstPromises == 3   \* gas/storage computations ever started
MaxCallers == 2       \* concurrent callers of each asynchronous operation
MaxEvalCallers == 1   \* callers in the specification of the status report
MaxEvalPromises == 1  \* fee computations in that specification
MaxUpdates == 2       \* updateTransaction calls in the specification of the pipeline
MaxPrepCallers == 1   \* callers of prepareTransaction in that specification
MaxKeyPromises == 2   \* fee computations in the specification of the cache key
MaxSharedEstimates == 4  \* gas/storage computations in the specification of
                         \* concurrent prepareTransaction calls

Callers == 1..MaxCallers

---------------------------------------------------------------------------
(* Values *)

\* null; a present value v of a nullable field is <<v>>
Null == <<>>
Some(v) == <<v>>
Val(o) == o[1]

\* BigNumber.prototype.toString of a nullable field, "" when absent
\* (the `x ? x.toString() : ""` of the key function; a BigNumber is an
\* object, hence truthy even when it is 0)
StrOrEmpty(o) == IF o = Null THEN "" ELSE ToString(Val(o))

\* The accounts handed to the bridge.  acc2 carries no subAccounts field.
Accounts ==
    { [id |-> "acc1", balance |-> 100, currency |-> "tezos",
       freshAddress |-> "tz1fresh",
       subAccounts |-> << [id |-> "sub1", balance |-> 30] >>],
      [id |-> "acc2", balance |-> 7, currency |-> "tezos",
       freshAddress |-> "tz1fresh2"],
      [id |-> "acc3", balance |-> 0, currency |-> "tezos",
       freshAddress |-> "tz1fresh", subAccounts |-> << >>] }

AccountOf(id) == CHOOSE a \in Accounts : a.id = id

\* validateRecipient (bridge/shared): a hard error, a soft warning or neither
validateRecipient(currency, recipient) ==
    CASE recipient = ""        -> [recipientError |-> Some("RecipientRequired"),
                                   recipientWarning |-> Null]
      [] recipient = "bad"     -> [recipientError |-> Some("InvalidAddress"),
                                   recipientWarning |-> Null]
      [] recipient = "tz1warn" -> [recipientError |-> Null,
                                   recipientWarning |-> Some("RecipientWarning")]
      [] OTHER                 -> [recipientError |-> Null,
                                   recipientWarning |-> Null]

\* what getFeesForTransaction may answer: a fee, or a failure by name
FeeValues == {9, 10, 11}
PricingFailures == {"NotEnoughBalance", "NetworkDown"}

\* what getAccountNetworkInfo may answer
NetworkInfos ==
    { [family |-> "tezos", fees |-> Some(2)],
      [family |-> "bitcoin", fees |-> Some(2)] }

\* what the engine estimates for an address
EngineEstimates(addr) ==
    IF addr = "tz1other"
    THEN { [gasLimit |-> 20, storage |-> 300] }
    ELSE { [gasLimit |-> 10, storage |-> 0] }

---------------------------------------------------------------------------
(* Draft lifecycle *)

createTransaction ==
    [family |-> "tezos", mode |-> "send", amount |-> 0, fees |-> Null,
     gasLimit |-> Null, storageLimit |-> Null, recipient |-> "",
     networkInfo |-> Null]

\* { ...patch, ...t }: the draft's own fields win over the patch's
updateTransactionKeepingDraft(t, patch) ==
    [f \in DOMAIN t \cup DOMAIN patch |->
        IF f \in DOMAIN t THEN t[f] ELSE patch[f]]

\* { ...t, ...patch }
updateTransaction(t, patch) ==
    [f \in DOMAIN t \cup DOMAIN patch |->
        IF f \in DOMAIN patch THEN patch[f] ELSE t[f]]

\* truthiness of the two fields createTransaction leaves out
HasSubAccountId(t) == "subAccountId" \in DOMAIN t /\ t.subAccountId # ""
UseAllAmount(t) == "useAllAmount" \in DOMAIN t /\ t.useAllAmount

---------------------------------------------------------------------------
(* Memoizing async cache (makeLRUCache of cache.js)                        *)

\* capacity of one cache: the least recently used entry goes when exceeded
CacheMax == 2

\* a cache is a sequence of [key, p] entries, least recently used first
CacheKeys(cache) == { cache[i].key : i \in 1..Len(cache) }
CacheHas(cache, key) == key \in CacheKeys(cache)
CacheGet(cache, key) ==
    (CHOOSE i \in 1..Len(cache) : cache[i].key = key)
CacheWithout(cache, key) ==
    SelectSeq(cache, LAMBDA e : e.key # key)
\* a hit makes the entry the most recently used one
CacheTouch(cache, key) ==
    Append(CacheWithout(cache, key), cache[CacheGet(cache, key)])
CacheSet(cache, key, p) ==
    LET put == Append(CacheWithout(cache, key), [key |-> key, p |-> p])
    IN  IF Len(put) > CacheMax THEN Tail(put) ELSE put
\* the promises a set() pushes out of the cache
CacheEvicted(cache, key, p) ==
    { cache[i].p : i \in 1..Len(cache) } \
    { CacheSet(cache, key, p)[i].p : i \in 1..Len(CacheSet(cache, key, p)) }
\* a rejected promise kept in the cache
CacheKeep(cache, p) == cache

\* a rejected promise leaves the cache: failures are not cached
CacheDrop(cache, p) ==
    SelectSeq(cache, LAMBDA e : e.p # p)

\* result(...args): the stored promise on a hit; on a miss the promise of
\* a new computation, stored before it settles
makeLRUCache(promises, cache, key, fresh) ==
    IF CacheHas(cache, key)
    THEN [promises |-> promises,
          cache    |-> CacheTouch(cache, key),
          p        |-> cache[CacheGet(cache, key)].p]
    ELSE LET p == Len(promises) + 1
             out == CacheEvicted(cache, key, p)
         IN  [promises |-> [i \in 1..p |->
                              IF i = p THEN fresh
                              ELSE IF i \in out
                                   THEN [promises[i] EXCEPT !.evicted = TRUE]
                                   ELSE promises[i]],
              cache    |-> CacheSet(cache, key, p),
              p        |-> p]

Settled(promise) == promise.state \in {"fulfilled", "rejected"}

---------------------------------------------------------------------------
(* Fee Calculator (calculateFees)                                          *)

\* a key function that leaves the storage limit out
FeesKeyWithoutStorageLimit(a, t) ==
    a.id \o "_" \o ToString(t.amount) \o "_" \o t.recipient \o "_" \o
    StrOrEmpty(t.gasLimit) \o "_" \o StrOrEmpty(t.fees)

\* the key function of calculateFees
FeesKey(a, t) ==
    a.id \o "_" \o ToString(t.amount) \o "_" \o t.recipient \o "_" \o
    StrOrEmpty(t.gasLimit) \o "_" \o StrOrEmpty(t.fees) \o "_" \o
    StrOrEmpty(t.storageLimit)

\* the compute function up to its first await (validateRecipient)
FeesComputation(a, t) ==
    [key |-> FeesKey(a, heap[t]), a |-> a, t |-> t, state |-> "validating",
     priced |-> FALSE, fee |-> 0, error |-> "", evicted |-> FALSE]

\* calculateFees without its cache: every call computes
calculateFeesUncached(a, t) ==
    [promises |-> Append(feePromises, FeesComputation(a, t)),
     cache    |-> feeCache,
     p        |-> Len(feePromises) + 1]

\* calculateFees(a, t): the memoized call
calculateFees(a, t) ==
    makeLRUCache(feePromises, feeCache, FeesKey(a, heap[t]),
                 FeesComputation(a, t))

\* validateRecipient answered inside the compute function: throw the hard
\* error, or ask getFeesForTransaction
FeeValidated(p) ==
    /\ p \in 1..Len(feePromises)
    /\ feePromises[p].state = "validating"
    /\ LET job == feePromises[p]
           v == validateRecipient(job.a.currency, heap[job.t].recipient)
       IN  IF v.recipientError # Null
           THEN /\ feePromises' = [feePromises EXCEPT
                       ![p].state = "rejected",
                       ![p].error = Val(v.recipientError)]
                /\ feeCache' = CacheDrop(feeCache, p)
           ELSE /\ feePromises' = [feePromises EXCEPT
                       ![p].state = "pricing", ![p].priced = TRUE]
                /\ UNCHANGED feeCache
    /\ UNCHANGED <<draftVars, estVars, status, prepare>>

\* getFeesForTransaction answers with a fee
FeePriced(p, fees) ==
    /\ p \in 1..Len(feePromises)
    /\ feePromises[p].state = "pricing"
    /\ \E f \in fees :
          feePromises' = [feePromises EXCEPT
              ![p].state = "fulfilled", ![p].fee = f]
    /\ UNCHANGED <<draftVars, feeCache, estVars, status, prepare>>

\* getFeesForTransaction fails
FeePricingFailed(p, failures) ==
    /\ p \in 1..Len(feePromises)
    /\ feePromises[p].state = "pricing"
    /\ \E e \in failures :
          feePromises' = [feePromises EXCEPT
              ![p].state = "rejected", ![p].error = e]
    /\ feeCache' = CacheDrop(feeCache, p)
    /\ UNCHANGED <<draftVars, estVars, status, prepare>>

---------------------------------------------------------------------------
(* Status Evaluator (getTransactionStatus)                                 *)

\* an object with no own property, and `o[field] = value`
EmptyObject == [f \in {} |-> ""]
SetField(o, field, value) == (field :> value) @@ o

\* the fee check left out: the Fee Calculator is always asked
FeesLoadedAlways(t) == TRUE

\* `!t.fees` is false: the draft carries fees
FeesLoaded(t) == t.fees # Null

\* the sub-account lookup left out: every check on the main account
ResolveAccountMain(a, t) == a

\* the sub-account named by t.subAccountId when the account has it,
\* otherwise the account itself
ResolveAccount(a, t) ==
    IF ~HasSubAccountId(t) \/ "subAccounts" \notin DOMAIN a
    THEN a
    ELSE LET found == { i \in 1..Len(a.subAccounts) :
                          a.subAccounts[i].id = t.subAccountId }
         IN  IF found = {} THEN a
             ELSE a.subAccounts[CHOOSE i \in found : \A j \in found : i <= j]

\* every failure filed under the catch-all field
FeeErrorFieldCatchAll(error) == "transaction"

\* the rejection handler: where a Fee Calculator failure is recorded
FeeErrorField(error) ==
    IF error = "NotEnoughBalance" THEN "amount" ELSE "transaction"

TotalSpent(t, account, estimatedFees) ==
    IF ~UseAllAmount(t) THEN t.amount + estimatedFees ELSE account.balance

FinalAmount(t, account, estimatedFees) ==
    IF UseAllAmount(t) THEN account.balance - estimatedFees ELSE t.amount

\* the threshold with >= for >
FeeTooHighInclusive(amount, estimatedFees) ==
    amount > 0 /\ estimatedFees * 10 >= amount

FeeTooHigh(amount, estimatedFees) ==
    amount > 0 /\ estimatedFees * 10 > amount

IdleStatus ==
    [pc |-> "idle", a |-> "", t |-> 0, p |-> 0,
     errors |-> EmptyObject, warnings |-> EmptyObject,
     estimatedFees |-> 0, amount |-> 0, totalSpent |-> 0,
     recipientIsReadOnly |-> FALSE]

\* the code after the fee block up to the await of validateRecipient:
\* the totals and the fee-too-high warning
StatusTotals(a, t, p, errors, estimatedFees) ==
    LET account == ResolveAccount(a, heap[t])
        amount == FinalAmount(heap[t], account, estimatedFees)
    IN  [IdleStatus EXCEPT
            !.pc = "awaitRecipient", !.a = a.id, !.t = t, !.p = p,
            !.errors = errors,
            !.warnings = IF FeeTooHigh(amount, estimatedFees)
                         THEN SetField(EmptyObject, "feeTooHigh", "FeeTooHigh")
                         ELSE EmptyObject,
            !.estimatedFees = estimatedFees,
            !.amount = amount,
            !.totalSpent = TotalSpent(heap[t], account, estimatedFees)]

\* .then with the fulfilment handler alone: a rejection leaves the function
OnFeesNoRejectionHandler(a, t, p) ==
    IF feePromises[p].state = "fulfilled"
    THEN StatusTotals(a, t, p, EmptyObject, feePromises[p].fee)
    ELSE [IdleStatus EXCEPT !.pc = "failed", !.a = a.id, !.t = t, !.p = p]

\* the two handlers given to calculateFees(a, t).then
OnFees(a, t, p) ==
    IF feePromises[p].state = "fulfilled"
    THEN StatusTotals(a, t, p, EmptyObject, feePromises[p].fee)
    ELSE StatusTotals(a, t, p,
             SetField(EmptyObject, FeeErrorField(feePromises[p].error),
                      feePromises[p].error),
             0)

\* getTransactionStatus(a, t) up to its first await
StatusStart(c, maxPromises) ==
    /\ status[c].pc = "idle"
    /\ \E a \in Accounts, t \in 1..Len(heap) :
          IF ~FeesLoaded(heap[t])
          THEN /\ status' = [status EXCEPT ![c] =
                      StatusTotals(a, t, 0,
                          SetField(EmptyObject, "fees", "FeeNotLoaded"), 0)]
               /\ UNCHANGED feeVars
          ELSE LET r == calculateFees(a, t)
               IN  /\ Len(r.promises) <= maxPromises
                   /\ feePromises' = r.promises
                   /\ feeCache' = r.cache
                   /\ status' = [status EXCEPT ![c] =
                          [IdleStatus EXCEPT !.pc = "awaitFees", !.a = a.id,
                                             !.t = t, !.p = r.p]]
    /\ UNCHANGED <<draftVars, estVars, prepare>>

\* the Fee Calculator's promise has settled: one of the two handlers runs
StatusFees(c) ==
    /\ status[c].pc = "awaitFees"
    /\ Settled(feePromises[status[c].p])
    /\ status' = [status EXCEPT ![c] =
              OnFees(AccountOf(status[c].a), status[c].t, status[c].p)]
    /\ UNCHANGED <<draftVars, feeVars, estVars, prepare>>

\* validateRecipient answered: the report is returned
StatusReport(call) ==
    LET v == validateRecipient(AccountOf(call.a).currency, heap[call.t].recipient)
        e == IF v.recipientError # Null
             THEN SetField(call.errors, "recipient", Val(v.recipientError))
             ELSE call.errors
        w == IF v.recipientWarning # Null
             THEN SetField(call.warnings, "recipient", Val(v.recipientWarning))
             ELSE call.warnings
    IN  [call EXCEPT !.pc = "done", !.errors = e, !.warnings = w,
                     !.recipientIsReadOnly = HasSubAccountId(heap[call.t])]

StatusFinish(c) ==
    /\ status[c].pc = "awaitRecipient"
    /\ status' = [status EXCEPT ![c] = StatusReport(status[c])]
    /\ UNCHANGED <<draftVars, feeVars, estVars, prepare>>

\* the caller has taken the report
StatusRelease(c) ==
    /\ status[c].pc = "done"
    /\ status' = [status EXCEPT ![c] = IdleStatus]
    /\ UNCHANGED <<draftVars, feeVars, estVars, prepare>>

---------------------------------------------------------------------------
(* Gas/Storage Estimator (estimateGasLimitAndStorage)                      *)

EstimateKey(a, addr) == a.id \o "|" \o addr

\* the compute function: the engine asked for its estimates
EstimateComputation(a, addr) ==
    [key |-> EstimateKey(a, addr), a |-> a.id, addr |-> addr,
     state |-> "pending", gasLimit |-> 0, storage |-> 0, error |-> "",
     evicted |-> FALSE]

\* the estimator without its cache: every call asks the engine
estimateUncached(a, addr) ==
    [promises |-> Append(estPromises, EstimateComputation(a, addr)),
     cache    |-> estCache,
     p        |-> Len(estPromises) + 1]

\* estimateGasLimitAndStorage(account, addr): the memoized call
estimateGasLimitAndStorage(a, addr) ==
    makeLRUCache(estPromises, estCache, EstimateKey(a, addr),
                 EstimateComputation(a, addr))

\* the engine answers: { gasLimit, storage }
EstimateResolved(p) ==
    /\ p \in 1..Len(estPromises)
    /\ estPromises[p].state = "pending"
    /\ \E e \in EngineEstimates(estPromises[p].addr) :
          estPromises' = [estPromises EXCEPT
              ![p].state = "fulfilled",
              ![p].gasLimit = e.gasLimit, ![p].storage = e.storage]
    /\ UNCHANGED <<draftVars, feeVars, estCache, status, prepare>>

\* the engine fails
EstimateFailed(p) ==
    /\ p \in 1..Len(estPromises)
    /\ estPromises[p].state = "pending"
    /\ estPromises' = [estPromises EXCEPT
          ![p].state = "rejected", ![p].error = "EngineError"]
    /\ estCache' = CacheDrop(estCache, p)
    /\ UNCHANGED <<draftVars, feeVars, status, prepare>>

---------------------------------------------------------------------------
(* Draft lifecycle as operations of a caller                               *)

CreateTransaction ==
    /\ Len(heap) < MaxDrafts
    /\ heap' = Append(heap, createTransaction)
    /\ prov' = Append(prov, [kind |-> "create", from |-> 0, patch |-> EmptyObject])
    /\ UNCHANGED <<returned, feeVars, estVars, status, prepare>>

\* the drafts a caller may hand over: any draft it holds, or only the one
\* it made last
AllDrafts == 1..Len(heap)
LatestDraft == { t \in 1..Len(heap) : t = Len(heap) }

UpdateTransaction(drafts, patches) ==
    /\ Len(heap) < MaxDrafts
    /\ Cardinality({ i \in 1..Len(prov) : prov[i].kind = "update" }) < MaxUpdates
    /\ \E t \in drafts, patch \in patches :
          /\ heap' = Append(heap, updateTransaction(heap[t], patch))
          /\ prov' = Append(prov, [kind |-> "update", from |-> t, patch |-> patch])
    /\ UNCHANGED <<returned, feeVars, estVars, status, prepare>>

---------------------------------------------------------------------------
(* Preparation Pipeline (prepareTransaction)                               *)

IdlePrepare ==
    [pc |-> "idle", a |-> "", t |-> 0, networkInfo |-> Null, p |-> 0,
     result |-> 0, error |-> ""]

\* the final comparison made always true: a new draft on every call
ChangedAlways(t, networkInfo, gasLimit, storageLimit, fees, recipient) == TRUE

\* the fees compared with the network's default instead of the resolved fees
ChangedFeesFromNetwork(t, networkInfo, gasLimit, storageLimit, fees, recipient) ==
    \/ t.networkInfo # networkInfo
    \/ t.gasLimit # gasLimit
    \/ t.storageLimit # storageLimit
    \/ t.fees # Val(networkInfo).fees
    \/ t.recipient # recipient

\* a draft without gas or storage limit never counted as settled
ChangedWhileUnestimated(t, networkInfo, gasLimit, storageLimit, fees, recipient) ==
    \/ gasLimit = Null
    \/ storageLimit = Null
    \/ t.networkInfo # networkInfo
    \/ t.fees # fees
    \/ t.recipient # recipient

\* the final comparison of the resolved fields with the draft's
Changed(t, networkInfo, gasLimit, storageLimit, fees, recipient) ==
    \/ t.networkInfo # networkInfo
    \/ t.gasLimit # gasLimit
    \/ t.storageLimit # storageLimit
    \/ t.fees # fees
    \/ t.recipient # recipient

\* the recipient left as the draft has it
ResolveRecipientAsIs(a, t) == t.recipient

\* a sub-account send without a recipient goes to the account's fresh address
ResolveRecipient(a, t) ==
    IF HasSubAccountId(t) /\ t.recipient = "" THEN a.freshAddress ELSE t.recipient

\* the network's default fee taken whatever the draft says
ResolveFeesFromNetwork(t, networkInfo) == Val(networkInfo).fees

\* t.fees || networkInfo.fees
ResolveFees(t, networkInfo) ==
    IF t.fees # Null THEN t.fees ELSE Val(networkInfo).fees

\* from the fee resolution to the return: the draft itself when nothing
\* changed, a new draft otherwise
PrepareReturn(c, a, t, networkInfo, gasLimit, storageLimit) ==
    LET d == heap[t]
        fees == ResolveFees(d, networkInfo)
        recipient == ResolveRecipient(a, d)
    IN  IF Changed(d, networkInfo, gasLimit, storageLimit, fees, recipient)
        THEN /\ Len(heap) < MaxDrafts
             /\ heap' = Append(heap,
                    updateTransaction(d,
                        [networkInfo |-> networkInfo, storageLimit |-> storageLimit,
                         gasLimit |-> gasLimit, fees |-> fees,
                         recipient |-> recipient]))
             /\ prov' = Append(prov, [kind |-> "prepare", from |-> t, patch |-> EmptyObject])
             /\ returned' = returned \cup { <<t, Len(heap) + 1>> }
             /\ prepare' = [prepare EXCEPT ![c] =
                    [IdlePrepare EXCEPT !.pc = "done", !.a = a.id, !.t = t,
                                        !.networkInfo = networkInfo,
                                        !.p = prepare[c].p,
                                        !.result = Len(heap) + 1]]
        ELSE /\ returned' = returned \cup { <<t, t>> }
             /\ prepare' = [prepare EXCEPT ![c] =
                    [IdlePrepare EXCEPT !.pc = "done", !.a = a.id, !.t = t,
                                        !.networkInfo = networkInfo,
                                        !.p = prepare[c].p,
                                        !.result = t]]
             /\ UNCHANGED <<heap, prov>>

\* the gas/storage block up to its await, entered with the network info
\* in hand
PrepareGasAndStorage(c, a, t, networkInfo) ==
    LET d == heap[t]
    IN  IF (d.gasLimit = Null \/ d.storageLimit = Null) /\ d.recipient # ""
        THEN /\ prepare' = [prepare EXCEPT ![c] =
                    [IdlePrepare EXCEPT !.pc = "awaitRecipient", !.a = a.id,
                                        !.t = t, !.networkInfo = networkInfo]]
             /\ UNCHANGED draftVars
        ELSE PrepareReturn(c, a, t, networkInfo, d.gasLimit, d.storageLimit)

\* prepareTransaction(a, t) up to its first await
PrepareStart(c, accounts, drafts) ==
    /\ prepare[c].pc = "idle"
    /\ \E a \in accounts, t \in drafts :
          IF heap[t].networkInfo = Null
          THEN /\ prepare' = [prepare EXCEPT ![c] =
                      [IdlePrepare EXCEPT !.pc = "awaitNetworkInfo",
                                          !.a = a.id, !.t = t]]
               /\ UNCHANGED draftVars
          ELSE PrepareGasAndStorage(c, a, t, heap[t].networkInfo)
    /\ UNCHANGED <<feeVars, estVars, status>>

\* the assertion left out: any family passes
FamilyNotAsserted(ni) == TRUE

\* invariant(ni.family === "tezos", "tezos networkInfo expected")
FamilyAsserted(ni) == ni.family = "tezos"

\* getAccountNetworkInfo answered: the family is asserted; the call that
\* fails keeps the info it fetched
PrepareNetworkInfo(c) ==
    /\ prepare[c].pc = "awaitNetworkInfo"
    /\ \E ni \in NetworkInfos :
          IF ~FamilyAsserted(ni)
          THEN /\ prepare' = [prepare EXCEPT ![c].pc = "failed",
                                             ![c].networkInfo = Some(ni),
                                             ![c].error = "Invariant Violation"]
               /\ UNCHANGED draftVars
          ELSE PrepareGasAndStorage(c, AccountOf(prepare[c].a), prepare[c].t, Some(ni))
    /\ UNCHANGED <<feeVars, estVars, status>>

\* getAccountNetworkInfo failed: the failure leaves prepareTransaction
PrepareNetworkInfoFailed(c) ==
    /\ prepare[c].pc = "awaitNetworkInfo"
    /\ prepare' = [prepare EXCEPT ![c].pc = "failed", ![c].error = "NetworkDown"]
    /\ UNCHANGED <<draftVars, feeVars, estVars, status>>

\* the validation's answer ignored: every recipient is estimated for
RecipientAcceptedAlways(v) == TRUE

\* if (!recipientError)
RecipientAccepted(v) == v.recipientError = Null

\* validateRecipient answered: the estimator is asked for a valid recipient
PrepareValidated(c, maxPromises) ==
    /\ prepare[c].pc = "awaitRecipient"
    /\ LET a == AccountOf(prepare[c].a)
           d == heap[prepare[c].t]
           v == validateRecipient(a.currency, d.recipient)
       IN  IF RecipientAccepted(v)
           THEN LET r == estimateGasLimitAndStorage(a, d.recipient)
                IN  /\ Len(r.promises) <= maxPromises
                    /\ estPromises' = r.promises
                    /\ estCache' = r.cache
                    /\ prepare' = [prepare EXCEPT ![c].pc = "awaitEstimate",
                                                  ![c].p = r.p]
                    /\ UNCHANGED draftVars
           ELSE /\ PrepareReturn(c, a, prepare[c].t, prepare[c].networkInfo,
                                 d.gasLimit, d.storageLimit)
                /\ UNCHANGED estVars
    /\ UNCHANGED <<feeVars, status>>

\* the estimator's promise has settled: its result is adopted, its failure
\* leaves prepareTransaction
PrepareEstimated(c) ==
    /\ prepare[c].pc = "awaitEstimate"
    /\ Settled(estPromises[prepare[c].p])
    /\ LET r == estPromises[prepare[c].p]
       IN  IF r.state = "fulfilled"
           THEN PrepareReturn(c, AccountOf(prepare[c].a), prepare[c].t,
                              prepare[c].networkInfo,
                              Some(r.gasLimit), Some(r.storage))
           ELSE /\ prepare' = [prepare EXCEPT ![c].pc = "failed",
                                              ![c].error = r.error]
                /\ UNCHANGED draftVars
    /\ UNCHANGED <<feeVars, estVars, status>>

\* the caller has taken the draft, or the failure
PrepareRelease(c) ==
    /\ prepare[c].pc \in {"done", "failed"}
    /\ prepare' = [prepare EXCEPT ![c] = IdlePrepare]
    /\ UNCHANGED <<draftVars, feeVars, estVars, status>>

---------------------------------------------------------------------------
(* Specification of the status report: getTransactionStatus on every draft *)
(* createTransaction and one updateTransaction can make                    *)

StatusPatches ==
    LET base == [amount : {0, 100}, fees : {Null, Some(5)},
                 recipient : {"tz1ok", "tz1warn", "bad"}]
        all  == { [useAllAmount |-> TRUE] @@ b : b \in base }
        sub  == { [subAccountId |-> s] @@ b :
                    b \in base \cup all, s \in {"sub1", "nosuch"} }
    IN  base \cup all \cup sub

StatusDrafts == { updateTransaction(createTransaction, patch) : patch \in StatusPatches }

InitWith(drafts) ==
    /\ \E d \in drafts : heap = <<d>>
    /\ prov = << [kind |-> "given", from |-> 0, patch |-> EmptyObject] >>
    /\ returned = {}
    /\ feePromises = << >>
    /\ feeCache = << >>
    /\ estPromises = << >>
    /\ estCache = << >>
    /\ status = [c \in Callers |-> IdleStatus]
    /\ prepare = [c \in Callers |-> IdlePrepare]

InitStatus == InitWith(StatusDrafts)

NextStatus ==
    \/ \E c \in 1..MaxEvalCallers : StatusStart(c, MaxEvalPromises)
    \/ \E c \in 1..MaxEvalCallers : StatusFees(c)
    \/ \E c \in 1..MaxEvalCallers : StatusFinish(c)
    \/ \E c \in 1..MaxEvalCallers : StatusRelease(c)
    \/ \E p \in 1..MaxEvalPromises : FeeValidated(p)
    \/ \E p \in 1..MaxEvalPromises : FeePriced(p, FeeValues)
    \/ \E p \in 1..MaxEvalPromises : FeePricingFailed(p, PricingFailures)

SpecStatus == InitStatus /\ [][NextStatus]_vars

---------------------------------------------------------------------------
(* Specification of the Fee Calculator's cache: concurrent callers of      *)
(* getTransactionStatus on one draft with fees, for several accounts       *)

FeeDrafts ==
    { updateTransaction(createTransaction,
                        [amount |-> 100, fees |-> Some(5), recipient |-> r]) :
        r \in {"tz1ok", "bad"} }

InitFees == InitWith(FeeDrafts)

NextFees ==
    \/ \E c \in Callers : StatusStart(c, MaxFeePromises)
    \/ \E c \in Callers : StatusFees(c)
    \/ \E c \in Callers : StatusFinish(c)
    \/ \E c \in Callers : StatusRelease(c)
    \/ \E p \in 1..MaxFeePromises : FeeValidated(p)
    \/ \E p \in 1..MaxFeePromises : FeePriced(p, {10})
    \/ \E p \in 1..MaxFeePromises : FeePricingFailed(p, {"NetworkDown"})

SpecFees == InitFees /\ [][NextFees]_vars

---------------------------------------------------------------------------
(* Specification of the pipeline: drafts created, updated and prepared     *)

PreparePatches ==
    { [recipient |-> "tz1ok"], [recipient |-> "tz1other"], [recipient |-> "bad"],
      [subAccountId |-> "sub1"], [gasLimit |-> Some(7)], [fees |-> Some(5)] }

InitPrepare ==
    /\ heap = << >>
    /\ prov = << >>
    /\ returned = {}
    /\ feePromises = << >>
    /\ feeCache = << >>
    /\ estPromises = << >>
    /\ estCache = << >>
    /\ status = [c \in Callers |-> IdleStatus]
    /\ prepare = [c \in Callers |-> IdlePrepare]

NextPrepare ==
    \/ CreateTransaction
    \/ UpdateTransaction(LatestDraft, PreparePatches)
    \/ \E c \in 1..MaxPrepCallers : PrepareStart(c, Accounts, LatestDraft)
    \/ \E c \in 1..MaxPrepCallers : PrepareNetworkInfo(c)
    \/ \E c \in 1..MaxPrepCallers : PrepareNetworkInfoFailed(c)
    \/ \E c \in 1..MaxPrepCallers : PrepareValidated(c, MaxEstPromises)
    \/ \E c \in 1..MaxPrepCallers : PrepareEstimated(c)
    \/ \E c \in 1..MaxPrepCallers : PrepareRelease(c)
    \/ \E p \in 1..MaxEstPromises : EstimateResolved(p)
    \/ \E p \in 1..MaxEstPromises : EstimateFailed(p)

SpecPrepare == InitPrepare /\ [][NextPrepare]_vars

---------------------------------------------------------------------------
(* Specification of sub-account sends: a draft prepared, then evaluated    *)

SubAccountPatches ==
    [recipient : {"", "tz1ok"}]
    \cup [recipient : {"", "tz1ok"}, subAccountId : {"sub1", "nosuch", ""}]

SubAccountDrafts ==
    { updateTransaction(createTransaction, patch) : patch \in SubAccountPatches }

InitSubAccount == InitWith(SubAccountDrafts)

NextSubAccount ==
    \/ \E c \in 1..MaxPrepCallers : PrepareStart(c, Accounts, LatestDraft)
    \/ \E c \in 1..MaxPrepCallers : PrepareNetworkInfo(c)
    \/ \E c \in 1..MaxPrepCallers : PrepareNetworkInfoFailed(c)
    \/ \E c \in 1..MaxPrepCallers : PrepareValidated(c, MaxEvalPromises)
    \/ \E c \in 1..MaxPrepCallers : PrepareEstimated(c)
    \/ \E c \in 1..MaxPrepCallers : PrepareRelease(c)
    \/ \E p \in 1..MaxEvalPromises : EstimateResolved(p)
    \/ \E p \in 1..MaxEvalPromises : EstimateFailed(p)
    \/ \E c \in 1..MaxEvalCallers : StatusStart(c, MaxEvalPromises)
    \/ \E c \in 1..MaxEvalCallers : StatusFees(c)
    \/ \E c \in 1..MaxEvalCallers : StatusFinish(c)
    \/ \E c \in 1..MaxEvalCallers : StatusRelease(c)
    \/ \E p \in 1..MaxEvalPromises : FeeValidated(p)
    \/ \E p \in 1..MaxEvalPromises : FeePriced(p, {10})
    \/ \E p \in 1..MaxEvalPromises : FeePricingFailed(p, {"NetworkDown"})

SpecSubAccount == InitSubAccount /\ [][NextSubAccount]_vars

---------------------------------------------------------------------------
(* Specification of the Fee Calculator's key: two drafts, drawn from the   *)
(* combinations of the five keyed fields, evaluated one after the other    *)

KeyDrafts ==
    { updateTransaction(createTransaction, patch) :
        patch \in [amount : {0, 1}, recipient : {"tz1ok", "tz1ok_1"},
                   gasLimit : {Null, Some(1)}, fees : {Null, Some(1)},
                   storageLimit : {Null, Some(1)}] }

InitKeys ==
    /\ \E d1, d2 \in KeyDrafts : heap = <<d1, d2>>
    /\ prov = << [kind |-> "given", from |-> 0, patch |-> EmptyObject],
              [kind |-> "given", from |-> 0, patch |-> EmptyObject] >>
    /\ returned = {}
    /\ feePromises = << >>
    /\ feeCache = << >>
    /\ estPromises = << >>
    /\ estCache = << >>
    /\ status = [c \in Callers |-> IdleStatus]
    /\ prepare = [c \in Callers |-> IdlePrepare]

NextKeys ==
    \/ \E c \in 1..MaxEvalCallers : StatusStart(c, MaxKeyPromises)
    \/ \E c \in 1..MaxEvalCallers : StatusFees(c)
    \/ \E c \in 1..MaxEvalCallers : StatusFinish(c)
    \/ \E c \in 1..MaxEvalCallers : StatusRelease(c)
    \/ \E p \in 1..MaxKeyPromises : FeeValidated(p)
    \/ \E p \in 1..MaxKeyPromises : FeePriced(p, {10})
    \/ \E p \in 1..MaxKeyPromises : FeePricingFailed(p, {"NetworkDown"})

SpecKeys == InitKeys /\ [][NextKeys]_vars

---------------------------------------------------------------------------
(* Specification of updateTransaction: drafts created and patched, any     *)
(* draft held being patched again                                          *)

UpdatePatches ==
    [recipient : {"", "tz1ok"}]
    \cup [amount : {0, 5}, fees : {Null, Some(5)}]
    \cup [gasLimit : {Null, Some(7)}, storageLimit : {Some(3)}]
    \cup [subAccountId : {"sub1"}, useAllAmount : {TRUE}]
    \cup {EmptyObject}

NextUpdate ==
    \/ CreateTransaction
    \/ UpdateTransaction(AllDrafts, UpdatePatches)

SpecUpdate == InitPrepare /\ [][NextUpdate]_vars

---------------------------------------------------------------------------
(* Specification of concurrent preparation: several callers prepare one    *)
(* draft, for any account, while earlier calls are still in flight         *)

EstimateDrafts ==
    { updateTransaction(createTransaction, patch) :
        patch \in [recipient : {"tz1ok"}, gasLimit : {Null, Some(7)},
                   networkInfo : {Some([family |-> "tezos", fees |-> Some(2)])}] }

FirstDraft == { t \in 1..Len(heap) : t = 1 }

InitEstimate == InitWith(EstimateDrafts)

NextEstimate ==
    \/ \E c \in Callers : PrepareStart(c, Accounts, FirstDraft)
    \/ \E c \in Callers : PrepareValidated(c, MaxSharedEstimates)
    \/ \E c \in Callers : PrepareEstimated(c)
    \/ \E c \in Callers : PrepareRelease(c)
    \/ \E p \in 1..MaxSharedEstimates : EstimateResolved(p)
    \/ \E p \in 1..MaxSharedEstimates : EstimateFailed(p)

SpecEstimate == InitEstimate /\ [][NextEstimate]_vars

---------------------------------------------------------------------------
(* Specification of the pipeline on one account: its drafts created,       *)
(* updated and prepared, every call made for that account                  *)

OneAccount == { a \in Accounts : a.id = "acc2" }

NextRepeat ==
    \/ CreateTransaction
    \/ UpdateTransaction(LatestDraft, PreparePatches)
    \/ \E c \in 1..MaxPrepCallers : PrepareStart(c, OneAccount, LatestDraft)
    \/ \E c \in 1..MaxPrepCallers : PrepareNetworkInfo(c)
    \/ \E c \in 1..MaxPrepCallers : PrepareNetworkInfoFailed(c)
    \/ \E c \in 1..MaxPrepCallers : PrepareValidated(c, MaxEstPromises)
    \/ \E c \in 1..MaxPrepCallers : PrepareEstimated(c)
    \/ \E c \in 1..MaxPrepCallers : PrepareRelease(c)
    \/ \E p \in 1..MaxEstPromises : EstimateResolved(p)
    \/ \E p \in 1..MaxEstPromises : EstimateFailed(p)

SpecRepeat == InitPrepare /\ [][NextRepeat]_vars

---------------------------------------------------------------------------
(* Claims about the status report, checked under SpecStatus                *)

\* the calls whose fee block is behind them
PastFees(c) == status[c].pc \in {"awaitRecipient", "done"}
Rejected(c) ==
    status[c].p # 0 /\ feePromises[status[c].p].state = "rejected"
Fulfilled(c) ==
    status[c].p # 0 /\ feePromises[status[c].p].state = "fulfilled"
Has(o, field) == field \in DOMAIN o

\* C5: getTransactionStatus never fails outright: no call ends by throwing,
\* and a returned report records a Fee Calculator failure in errors.amount
\* or errors.transaction, missing fees in errors.fees and a recipient hard
\* error in errors.recipient, with every total computed.
C5_StatusNeverFails ==
    \A c \in Callers :
        /\ status[c].pc # "failed"
        /\ status[c].pc = "done" =>
              LET r == status[c]
                  d == heap[r.t]
                  v == validateRecipient("tezos", d.recipient)
              IN  /\ Rejected(c) =>
                        \E f \in {"amount", "transaction"} :
                            Has(r.errors, f) /\ r.errors[f] = feePromises[r.p].error
                  /\ d.fees = Null => Has(r.errors, "fees")
                  /\ v.recipientError # Null =>
                        Has(r.errors, "recipient") /\
                        r.errors["recipient"] = Val(v.recipientError)
                  /\ v.recipientWarning # Null => Has(r.warnings, "recipient")
                  /\ DOMAIN r.errors \subseteq {"fees", "amount", "transaction", "recipient"}
                  /\ DOMAIN r.warnings \subseteq {"feeTooHigh", "recipient"}

\* a report returned although the Fee Calculator failed
C5_Witness ==
    \E c \in Callers :
        /\ status[c].pc = "done" /\ Rejected(c)
        /\ feePromises[status[c].p].error = "NetworkDown"
        /\ Has(status[c].errors, "transaction")

\* C6: with fees present, an insufficient-balance failure of the Fee
\* Calculator is recorded in errors.amount and not in errors.transaction,
\* any other failure (the recipient hard error included) in
\* errors.transaction and not in errors.amount; estimatedFees stays 0.
C6_FeeFailureAttribution ==
    \A c \in Callers :
        (PastFees(c) /\ Rejected(c)) =>
            LET r == status[c]
                e == feePromises[r.p].error
            IN  /\ r.estimatedFees = 0
                /\ IF e = "NotEnoughBalance"
                   THEN Has(r.errors, "amount") /\ r.errors["amount"] = e
                        /\ ~Has(r.errors, "transaction")
                   ELSE Has(r.errors, "transaction") /\ r.errors["transaction"] = e
                        /\ ~Has(r.errors, "amount")

\* an insufficient-balance failure reported
C6_Witness ==
    \E c \in Callers :
        /\ status[c].pc = "done" /\ Rejected(c)
        /\ Has(status[c].errors, "amount")
        /\ status[c].errors["amount"] = "NotEnoughBalance"

\* the balance the status evaluator must use: sub1's when acc1 is asked
\* about a draft naming sub1, the account's own otherwise
ExpectedBalance(accountId, d) ==
    IF accountId = "acc1" /\ Has(d, "subAccountId") /\ d.subAccountId = "sub1"
    THEN 30
    ELSE (CHOOSE a \in Accounts : a.id = accountId).balance

\* the estimated fees of a call: the Fee Calculator's result, 0 when it
\* failed or was not asked
ExpectedFees(c) ==
    IF Fulfilled(c) THEN feePromises[status[c].p].fee ELSE 0

\* C7: with useAllAmount, totalSpent = B and amount = B - F for the resolved
\* account's balance B and the estimated fees F; without it,
\* totalSpent = draft amount + F and amount = draft amount.
C7_AllBalanceArithmetic ==
    \A c \in Callers :
        PastFees(c) =>
            LET r == status[c]
                d == heap[r.t]
                B == ExpectedBalance(r.a, d)
                F == ExpectedFees(c)
            IN  /\ r.estimatedFees = F
                /\ IF Has(d, "useAllAmount") /\ d.useAllAmount
                   THEN r.totalSpent = B /\ r.amount = B - F
                   ELSE r.totalSpent = d.amount + F /\ r.amount = d.amount

\* all of a sub-account's balance sent, with fees estimated
C7_Witness ==
    \E c \in Callers :
        /\ status[c].pc = "done" /\ Fulfilled(c)
        /\ status[c].a = "acc1"
        /\ HasSubAccountId(heap[status[c].t])
        /\ UseAllAmount(heap[status[c].t])
        /\ status[c].totalSpent = 30
        /\ status[c].amount = 30 - status[c].estimatedFees
        /\ status[c].estimatedFees > 0

\* C8: warnings.feeTooHigh is set exactly when the final amount is > 0 and
\* estimatedFees * 10 > final amount: for amount 100 with fees 11, not with
\* fees 9 nor 10, and never for an amount <= 0.
C8_FeeTooHighWarning ==
    \A c \in Callers :
        PastFees(c) =>
            LET r == status[c]
                warned == Has(r.warnings, "feeTooHigh")
            IN  /\ warned <=> (r.amount > 0 /\ r.estimatedFees * 10 > r.amount)
                /\ (r.amount = 100 /\ r.estimatedFees = 11) => warned
                /\ (r.amount = 100 /\ r.estimatedFees \in {9, 10}) => ~warned
                /\ r.amount <= 0 => ~warned

\* the boundary: fees of exactly a tenth of the amount, no warning
C8_Witness ==
    \E c \in Callers :
        /\ status[c].pc = "done"
        /\ status[c].amount = 100 /\ status[c].estimatedFees = 10
        /\ ~Has(status[c].warnings, "feeTooHigh")

\* C9: a draft with fees = null gets errors.fees, the Fee Calculator is not
\* asked, and the totals are those of estimatedFees = 0.
C9_MissingFees ==
    \A c \in Callers :
        (status[c].pc # "idle" /\ heap[status[c].t].fees = Null) =>
            LET r == status[c]
                d == heap[r.t]
            IN  /\ r.p = 0
                /\ feePromises = << >>
                /\ Has(r.errors, "fees") /\ r.errors["fees"] = "FeeNotLoaded"
                /\ r.estimatedFees = 0
                /\ IF Has(d, "useAllAmount") /\ d.useAllAmount
                   THEN r.amount = ExpectedBalance(r.a, d)
                        /\ r.totalSpent = ExpectedBalance(r.a, d)
                   ELSE r.amount = d.amount /\ r.totalSpent = d.amount

\* all the balance sent by a draft whose fees are not loaded
C9_Witness ==
    \E c \in Callers :
        /\ status[c].pc = "done"
        /\ heap[status[c].t].fees = Null
        /\ UseAllAmount(heap[status[c].t])
        /\ status[c].amount = 100 /\ status[c].totalSpent = 100
        /\ Has(status[c].errors, "fees")

---------------------------------------------------------------------------
(* Claims about the Fee Calculator's cache, checked under SpecFees         *)

\* two callers of the Fee Calculator with the same account and draft, the
\* recipient passing validation, neither computation settled: whichever
\* started second started before the first had settled
ConcurrentSameRequest(c1, c2) ==
    /\ c1 # c2
    /\ status[c1].pc = "awaitFees" /\ status[c2].pc = "awaitFees"
    /\ status[c1].a = status[c2].a /\ status[c1].t = status[c2].t
    /\ validateRecipient("tezos", heap[status[c1].t].recipient).recipientError = Null
    /\ ~Settled(feePromises[status[c1].p])
    /\ ~Settled(feePromises[status[c2].p])

\* two callers holding one promise receive one result
SameResult(c1, c2) ==
    (/\ status[c1].p # 0 /\ status[c1].p = status[c2].p
     /\ PastFees(c1) /\ PastFees(c2)) =>
        /\ status[c1].estimatedFees = status[c2].estimatedFees
        /\ \A f \in {"amount", "transaction"} :
              /\ Has(status[c1].errors, f) <=> Has(status[c2].errors, f)
              /\ Has(status[c1].errors, f) =>
                    status[c1].errors[f] = status[c2].errors[f]

\* C1 as stated: two concurrent calls of the Fee Calculator with identical
\* (account, draft) share one computation, so getFeesForTransaction is
\* invoked once for both, and both receive the same result.
C1_ConcurrentCallsShareOneComputation ==
    \A c1, c2 \in Callers :
        /\ ConcurrentSameRequest(c1, c2) => status[c1].p = status[c2].p
        /\ SameResult(c1, c2)

\* C1 amended: the same, unless the first call's entry was pushed out of
\* the cache (capacity exceeded by requests for other keys) in between.
C1_ShareOneComputationUnlessEvicted ==
    \A c1, c2 \in Callers :
        /\ (ConcurrentSameRequest(c1, c2) /\ status[c1].p < status[c2].p) =>
              feePromises[status[c1].p].evicted
        /\ SameResult(c1, c2)

\* two callers wait for one computation, which has asked for the price once
C1_Witness ==
    \E c1, c2 \in Callers :
        /\ ConcurrentSameRequest(c1, c2)
        /\ status[c1].p = status[c2].p
        /\ feePromises[status[c1].p].priced
        /\ Len(feePromises) = 1

\* C4: failures are not cached: a call of the Fee Calculator is never given
\* a promise that has already rejected, and when the latest computation
\* for its key has rejected the call starts a new computation.
C4_FailuresAreNotCached ==
    [][\A c \in Callers :
          (status[c].pc = "idle" /\ status'[c].pc = "awaitFees") =>
              LET p == status'[c].p
                  same == { q \in 1..Len(feePromises) :
                              feePromises[q].key = feePromises'[p].key }
              IN  /\ feePromises'[p].state # "rejected"
                  /\ (\E q \in same :
                         /\ \A r \in same : r <= q
                         /\ feePromises[q].state = "rejected")
                     => (p = Len(feePromises) + 1 /\ Len(feePromises') = p)
      ]_vars

\* a request recomputed after the same request failed at pricing
C4_Witness ==
    \E c \in Callers :
        /\ status[c].pc = "awaitFees"
        /\ \E q \in 1..Len(feePromises) :
              /\ q < status[c].p
              /\ feePromises[q].key = feePromises[status[c].p].key
              /\ feePromises[q].state = "rejected"
              /\ feePromises[q].priced
              /\ ~feePromises[q].evicted
              /\ feePromises[status[c].p].priced

---------------------------------------------------------------------------
(* Claims about the pipeline, checked under SpecPrepare                    *)

PassesValidation(recipient) ==
    validateRecipient("tezos", recipient).recipientError = Null

\* a draft made by updateTransaction from createTransaction(), with a
\* recipient that passes validation
ValidRecipientUpdate(u) ==
    /\ prov[u].kind = "update"
    /\ prov[prov[u].from].kind = "create"
    /\ PassesValidation(heap[u].recipient)

\* C2: from createTransaction() updated with a valid recipient, the draft
\* that two successful prepareTransaction calls lead to is returned
\* unchanged, the same reference, by every further call.
C2_ConvergesWithinTwoCalls ==
    \A first, second, further \in returned :
        (/\ ValidRecipientUpdate(first[1])
         /\ second[1] = first[2]
         /\ further[1] = second[2]) => further[2] = further[1]

\* a recipient set, one call that fills the draft in, one that returns it
C2_Witness ==
    \E u, x \in 1..Len(heap) :
        /\ ValidRecipientUpdate(u)
        /\ <<u, x>> \in returned /\ x # u
        /\ <<x, x>> \in returned
        /\ heap[x].gasLimit # Null /\ heap[x].storageLimit # Null
        /\ heap[x].networkInfo # Null /\ heap[x].fees # Null

\* a draft no field of which prepareTransaction would resolve to another
\* value: network info and fees present, no recipient to default, and
\* gas and storage present or not to be estimated
FixedPoint(d) ==
    /\ d.networkInfo # Null
    /\ d.fees # Null
    /\ ~(Has(d, "subAccountId") /\ d.subAccountId # "" /\ d.recipient = "")
    /\ \/ d.gasLimit # Null /\ d.storageLimit # Null
       \/ d.recipient = ""
       \/ ~PassesValidation(d.recipient)

\* C3: prepareTransaction of a draft at a fixed point returns that very
\* draft, and does not fail.
C3_FixedPointReturnsSameDraft ==
    \A c \in Callers :
        (prepare[c].pc \in {"done", "failed"} /\ FixedPoint(heap[prepare[c].t])) =>
            /\ prepare[c].pc = "done"
            /\ prepare[c].result = prepare[c].t

\* a filled-in draft with a valid recipient handed back as it came
C3_Witness ==
    \E c \in Callers :
        /\ prepare[c].pc = "done"
        /\ FixedPoint(heap[prepare[c].t])
        /\ PassesValidation(heap[prepare[c].t].recipient)
        /\ heap[prepare[c].t].gasLimit # Null
        /\ prepare[c].result = prepare[c].t

---------------------------------------------------------------------------
(* Claims about sub-account sends, checked under SpecSubAccount            *)

SubAccountSendWithoutRecipient(d) ==
    Has(d, "subAccountId") /\ d.subAccountId # "" /\ d.recipient = ""

\* C10: prepareTransaction gives a draft with subAccountId and an empty
\* recipient the account's fresh address as recipient, and
\* getTransactionStatus reports recipientIsReadOnly exactly for the drafts
\* that carry a sub-account identifier.
C10_SubAccountRecipientDefault ==
    /\ \A c \in Callers :
          (prepare[c].pc = "done" /\ SubAccountSendWithoutRecipient(heap[prepare[c].t])) =>
              heap[prepare[c].result].recipient =
                  (IF prepare[c].a = "acc2" THEN "tz1fresh2" ELSE "tz1fresh")
    /\ \A c \in Callers :
          status[c].pc = "done" =>
              (status[c].recipientIsReadOnly <=>
                  (Has(heap[status[c].t], "subAccountId")
                   /\ heap[status[c].t].subAccountId # ""))

\* the status of a draft that preparation gave the fresh address
C10_Witness ==
    \E c \in Callers :
        /\ status[c].pc = "done"
        /\ status[c].recipientIsReadOnly
        /\ prov[status[c].t].kind = "prepare"
        /\ SubAccountSendWithoutRecipient(heap[prov[status[c].t].from])
        /\ heap[status[c].t].recipient = "tz1fresh2"

---------------------------------------------------------------------------
(* Claims about the Fee Calculator's key, checked under SpecKeys           *)

\* the five fields of a draft that the key is made of
KeyedFields == {"amount", "recipient", "gasLimit", "storageLimit", "fees"}
SameKeyedFields(d1, d2) == \A f \in KeyedFields : d1[f] = d2[f]

\* C11: for one account, two drafts have the same Fee Calculator key only
\* if they agree on amount, recipient, gasLimit, storageLimit and fees;
\* hence the computation a call waits for was started for that account
\* and for a draft with the same five fields: a call after any of them
\* changed is a miss and validates and prices again.
C11_KeySensitivity ==
    /\ \A a \in Accounts : \A t1, t2 \in 1..Len(heap) :
          FeesKey(a, heap[t1]) = FeesKey(a, heap[t2]) =>
              SameKeyedFields(heap[t1], heap[t2])
    /\ \A c \in Callers :
          status[c].p # 0 =>
              /\ feePromises[status[c].p].a.id = status[c].a
              /\ SameKeyedFields(heap[feePromises[status[c].p].t],
                                 heap[status[c].t])

\* a second call for the same account, on a draft that differs from the
\* first call's in the storage limit alone, with the first result still
\* cached: it waits for a computation of its own, priced anew
C11_Witness ==
    \E c \in Callers :
        /\ status[c].pc = "awaitFees"
        /\ status[c].p = 2
        /\ feePromises[2].priced
        /\ feePromises[1].state = "fulfilled"
        /\ CacheHas(feeCache, feePromises[1].key)
        /\ feePromises[1].a = feePromises[2].a
        /\ feePromises[1].t # feePromises[2].t
        /\ \A f \in KeyedFields \ {"storageLimit"} :
              heap[1][f] = heap[2][f]
        /\ heap[1].storageLimit # heap[2].storageLimit

---------------------------------------------------------------------------
(* Claims about updateTransaction, checked under SpecUpdate                *)

\* C12: updateTransaction(draft, patch) returns a new draft in which every
\* field of the patch has the patch's value and every other field the
\* input's value, and leaves the input, like every draft that exists, as
\* it was.
C12_UpdateIsShallowMerge ==
    [][ (Len(heap') > Len(heap) /\ prov'[Len(heap')].kind = "update") =>
          LET new == Len(heap')
              t == prov'[new].from
              patch == prov'[new].patch
          IN  /\ new = Len(heap) + 1
              /\ t \in 1..Len(heap)
              /\ DOMAIN heap'[new] = DOMAIN heap[t] \cup DOMAIN patch
              /\ \A f \in DOMAIN patch : heap'[new][f] = patch[f]
              /\ \A f \in DOMAIN heap[t] \ DOMAIN patch :
                    heap'[new][f] = heap[t][f]
              /\ \A i \in 1..Len(heap) : heap'[i] = heap[i]
      ]_vars

\* a draft patched in two fields that held other values, a third field
\* kept from an earlier patch
C12_Witness ==
    \E u \in 1..Len(heap) :
        /\ prov[u].kind = "update"
        /\ prov[u].patch = [amount |-> 5, fees |-> Some(5)]
        /\ heap[prov[u].from].amount = 0
        /\ heap[prov[u].from].fees = Null
        /\ heap[prov[u].from].recipient = "tz1ok"
        /\ heap[u].amount = 5 /\ heap[u].recipient = "tz1ok"

---------------------------------------------------------------------------
(* Further claims about the pipeline, checked under SpecPrepare            *)

TezosNetworkInfo(d) ==
    d.networkInfo # Null /\ Val(d.networkInfo).family = "tezos"

\* C13: a prepareTransaction call on a draft without networkInfo that is
\* answered with network info of another family than tezos fails with the
\* assertion's error and returns no draft; every draft prepareTransaction
\* returns carries network info of the family tezos.
C13_NetworkInfoFamilyAsserted ==
    /\ \A c \in Callers :
          (/\ prepare[c].pc \in {"done", "failed"}
           /\ heap[prepare[c].t].networkInfo = Null
           /\ prepare[c].networkInfo # Null
           /\ Val(prepare[c].networkInfo).family # "tezos") =>
              /\ prepare[c].pc = "failed"
              /\ prepare[c].error = "Invariant Violation"
              /\ prepare[c].result = 0
    /\ \A c \in Callers :
          prepare[c].pc = "done" => TezosNetworkInfo(heap[prepare[c].result])
    /\ \A r \in returned : TezosNetworkInfo(heap[r[2]])

\* a call that failed on the assertion, after another returned a draft
C13_Witness ==
    \E c \in Callers :
        /\ prepare[c].pc = "failed"
        /\ prepare[c].error = "Invariant Violation"
        /\ Val(prepare[c].networkInfo).family = "bitcoin"
        /\ \E r \in returned : r[2] # r[1] /\ heap[r[1]].networkInfo = Null

---------------------------------------------------------------------------
(* Claims about concurrent preparation, checked under SpecEstimate         *)

\* two prepareTransaction calls for one account and one draft, both in
\* flight at the estimator
ConcurrentSamePreparation(c1, c2) ==
    /\ c1 # c2
    /\ prepare[c1].pc = "awaitEstimate" /\ prepare[c2].pc = "awaitEstimate"
    /\ prepare[c1].a = prepare[c2].a /\ prepare[c1].t = prepare[c2].t

InFlight(p) == estPromises[p].state = "pending"

\* callers given one promise adopt one gasLimit and one storageLimit
SameEstimateAdopted(c1, c2) ==
    (/\ prepare[c1].pc = "done" /\ prepare[c2].pc = "done"
     /\ prepare[c1].p # 0 /\ prepare[c1].p = prepare[c2].p) =>
        /\ heap[prepare[c1].result].gasLimit = heap[prepare[c2].result].gasLimit
        /\ heap[prepare[c1].result].storageLimit =
              heap[prepare[c2].result].storageLimit

\* C14 as stated: at most one gas/storage computation per (account id,
\* recipient) key is in flight at any time, concurrent calls for one
\* account and one draft wait for the same computation, and they adopt
\* the same gasLimit and storageLimit.
C14_OneEstimateInFlightPerKey ==
    /\ \A p, q \in 1..Len(estPromises) :
          (p # q /\ estPromises[p].key = estPromises[q].key) =>
              ~(InFlight(p) /\ InFlight(q))
    /\ \A c1, c2 \in Callers :
          /\ (ConcurrentSamePreparation(c1, c2)
               /\ InFlight(prepare[c1].p) /\ InFlight(prepare[c2].p)) =>
                  prepare[c1].p = prepare[c2].p
          /\ SameEstimateAdopted(c1, c2)

\* C14 amended: the same, unless the earlier computation's entry was
\* pushed out of the cache (capacity exceeded by calls for other keys)
\* while it was in flight.
C14_OneEstimateInFlightUnlessEvicted ==
    /\ \A p, q \in 1..Len(estPromises) :
          (p < q /\ estPromises[p].key = estPromises[q].key
           /\ InFlight(p) /\ InFlight(q)) => estPromises[p].evicted
    /\ \A c1, c2 \in Callers :
          /\ (ConcurrentSamePreparation(c1, c2)
               /\ InFlight(prepare[c1].p) /\ InFlight(prepare[c2].p)
               /\ prepare[c1].p < prepare[c2].p) =>
                  estPromises[prepare[c1].p].evicted
          /\ SameEstimateAdopted(c1, c2)

\* two callers have prepared one draft for one account on one estimate,
\* the only one the engine was asked for
C14_Witness ==
    \E c1, c2 \in Callers :
        /\ c1 # c2
        /\ prepare[c1].pc = "done" /\ prepare[c2].pc = "done"
        /\ prepare[c1].a = prepare[c2].a /\ prepare[c1].t = prepare[c2].t
        /\ prepare[c1].p = 1 /\ prepare[c2].p = 1
        /\ Len(estPromises) = 1
        /\ heap[prepare[c1].result].gasLimit = Some(10)
        /\ heap[prepare[c2].result].gasLimit = Some(10)

---------------------------------------------------------------------------
(* Claims about failures in the pipeline, checked under SpecPrepare        *)

\* the calls that have ended, one way or the other
Ended(c) == prepare[c].pc \in {"done", "failed"}

\* the call's estimate was asked for and the engine failed
EstimationFailed(c) ==
    /\ Ended(c)
    /\ prepare[c].p # 0
    /\ estPromises[prepare[c].p].state = "rejected"

\* C15: a prepareTransaction call whose gas/storage estimation fails does
\* not fail: it returns a draft with gasLimit and storageLimit as in the
\* input and with networkInfo, fees and recipient resolved; the only
\* failure that leaves prepareTransaction is the assertion's.
C15_EstimationFailureSwallowed ==
    \A c \in Callers :
        /\ EstimationFailed(c) =>
              /\ prepare[c].pc = "done"
              /\ heap[prepare[c].result].gasLimit = heap[prepare[c].t].gasLimit
              /\ heap[prepare[c].result].storageLimit =
                    heap[prepare[c].t].storageLimit
              /\ heap[prepare[c].result].networkInfo # Null
              /\ heap[prepare[c].result].fees # Null
              /\ heap[prepare[c].result].recipient =
                    ResolveRecipient(AccountOf(prepare[c].a), heap[prepare[c].t])
        /\ (prepare[c].pc = "failed" /\ prepare[c].p # 0) =>
              prepare[c].error = "Invariant Violation"

\* a non-empty recipient that validation answers with a hard error
InvalidRecipient(d) == d.recipient # "" /\ ~PassesValidation(d.recipient)

\* C16: a prepareTransaction call on a draft whose non-empty recipient
\* fails validation, once it has its network info, does not fail and does
\* not ask the estimator: it returns a draft with gasLimit and storageLimit
\* as in the input and with networkInfo and fees resolved.  The estimator
\* is never asked about a recipient that fails validation.
C16_InvalidRecipientLeavesGasAndStorage ==
    /\ \A c \in Callers :
          (/\ Ended(c)
           /\ InvalidRecipient(heap[prepare[c].t])
           /\ prepare[c].networkInfo # Null
           /\ FamilyAsserted(Val(prepare[c].networkInfo))) =>
              /\ prepare[c].pc = "done"
              /\ prepare[c].p = 0
              /\ heap[prepare[c].result].gasLimit = heap[prepare[c].t].gasLimit
              /\ heap[prepare[c].result].storageLimit =
                    heap[prepare[c].t].storageLimit
              /\ heap[prepare[c].result].networkInfo # Null
              /\ heap[prepare[c].result].fees # Null
    /\ \A p \in 1..Len(estPromises) : PassesValidation(estPromises[p].addr)

\* a draft with an invalid recipient and a gas limit of the user's, but no
\* storage limit, comes back with network info and fees filled in
C16_Witness ==
    \E c \in Callers :
        /\ prepare[c].pc = "done"
        /\ InvalidRecipient(heap[prepare[c].t])
        /\ heap[prepare[c].t].networkInfo = Null
        /\ heap[prepare[c].t].gasLimit = Some(7)
        /\ heap[prepare[c].result].gasLimit = Some(7)
        /\ heap[prepare[c].result].storageLimit = Null
        /\ heap[prepare[c].result].fees = Some(2)
        /\ estPromises = << >>

---------------------------------------------------------------------------
(* Claims about repeated preparation, checked under SpecRepeat             *)

\* C17: prepareTransaction applied to its own output returns that output,
\* the same reference: whenever two calls succeed, the second on the draft
\* the first returned, the second returns its input.
C17_SecondCallReturnsItsInput ==
    \A first, second \in returned :
        second[1] = first[2] => second[2] = second[1]

\* C18: prepareTransaction reaches a fixed point also for a draft whose
\* recipient fails validation: the draft a call returns for it has
\* networkInfo and fees resolved, and every later call on that draft
\* returns it unchanged, the same reference; preparing until the result
\* is the input takes at most two calls.
C18_InvalidRecipientConverges ==
    \A first, later \in returned :
        InvalidRecipient(heap[first[1]]) =>
            /\ heap[first[2]].networkInfo # Null
            /\ heap[first[2]].fees # Null
            /\ heap[first[2]].gasLimit = heap[first[1]].gasLimit
            /\ later[1] = first[2] => later[2] = later[1]

\* an invalid recipient: one call that resolves network info and fees,
\* one that returns its input, gas and storage limit still absent
C18_Witness ==
    \E u, x \in 1..Len(heap) :
        /\ InvalidRecipient(heap[u])
        /\ <<u, x>> \in returned /\ x # u
        /\ <<x, x>> \in returned
        /\ heap[x].gasLimit = Null /\ heap[x].storageLimit = Null
        /\ heap[x].fees # Null

\* some updateTransaction in the making of draft t set its gas or storage
\* limit
RECURSIVE LimitsPatched(_)
LimitsPatched(t) ==
    \/ /\ prov[t].kind = "update"
       /\ {"gasLimit", "storageLimit"} \cap DOMAIN prov[t].patch # {}
    \/ /\ prov[t].from # 0
       /\ LimitsPatched(prov[t].from)

\* C19: whenever prepareTransaction returns its input unchanged for a
\* draft with a valid non-empty recipient whose gasLimit and storageLimit
\* were filled in by the pipeline, never by a patch, these are what the
\* estimator answers for the draft's recipient.
C19_LimitsMatchCurrentRecipient ==
    \A c \in Callers :
        (/\ prepare[c].pc = "done"
         /\ prepare[c].result = prepare[c].t
         /\ heap[prepare[c].t].recipient # ""
         /\ PassesValidation(heap[prepare[c].t].recipient)
         /\ heap[prepare[c].t].gasLimit # Null
         /\ heap[prepare[c].t].storageLimit # Null
         /\ ~LimitsPatched(prepare[c].t)) =>
            \E e \in EngineEstimates(heap[prepare[c].t].recipient) :
                /\ heap[prepare[c].t].gasLimit = Some(e.gasLimit)
                /\ heap[prepare[c].t].storageLimit = Some(e.storage)

---------------------------------------------------------------------------
(* Claims about what prepareTransaction leaves alone, checked under        *)
(* SpecPrepare                                                             *)

\* the fields prepareTransaction never resolves are the input's
UnresolvedFieldsKept(d, o) ==
    /\ \A f \in {"family", "mode", "amount"} : o[f] = d[f]
    /\ \A f \in {"subAccountId", "useAllAmount"} :
          /\ Has(o, f) <=> Has(d, f)
          /\ Has(d, f) => o[f] = d[f]

\* the call on draft d reaches the estimator
Estimated(d) ==
    /\ d.gasLimit = Null \/ d.storageLimit = Null
    /\ d.recipient # ""
    /\ PassesValidation(d.recipient)

\* the step in which call c returns, its input and its output
Returns(c) == prepare[c].pc # "done" /\ prepare'[c].pc = "done"
Input(c) == heap[prepare'[c].t]
Output(c) == heap'[prepare'[c].result]

\* C20 as stated: prepareTransaction changes no draft that exists, and
\* the draft it returns has the input's family, mode, amount, subAccountId
\* and useAllAmount, and the input's value in each of networkInfo, fees,
\* recipient, gasLimit and storageLimit that the input has.
C20_OnlyFillsAbsentFields ==
    [][ /\ \A i \in 1..Len(heap) : heap'[i] = heap[i]
        /\ \A c \in Callers :
              Returns(c) =>
                  LET d == Input(c)
                      o == Output(c)
                  IN
                      /\ UnresolvedFieldsKept(d, o)
                      /\ \A f \in {"networkInfo", "fees", "gasLimit", "storageLimit"} :
                            d[f] # Null => o[f] = d[f]
                      /\ d.recipient # "" => o.recipient = d.recipient
      ]_vars

\* C20 amended: the same, except that a gasLimit or storageLimit of the
\* input is kept only when the estimator is not reached; when it is (one
\* of the two absent, recipient non-empty and valid), both are the
\* estimator's, whatever the input had.
C20_FillsAbsentFieldsOrEstimates ==
    [][ /\ \A i \in 1..Len(heap) : heap'[i] = heap[i]
        /\ \A c \in Callers :
              Returns(c) =>
                  LET d == Input(c)
                      o == Output(c)
                  IN
                      /\ UnresolvedFieldsKept(d, o)
                      /\ \A f \in {"networkInfo", "fees"} :
                            d[f] # Null => o[f] = d[f]
                      /\ d.recipient # "" => o.recipient = d.recipient
                      /\ IF Estimated(d)
                         THEN \E e \in EngineEstimates(d.recipient) :
                                 /\ o.gasLimit = Some(e.gasLimit)
                                 /\ o.storageLimit = Some(e.storage)
                         ELSE /\ o.gasLimit = d.gasLimit
                              /\ o.storageLimit = d.storageLimit
      ]_vars

\* a draft with fees and a gas limit of the user's and no storage limit:
\* returned with the fees kept and the gas limit estimated anew
C20_Witness ==
    \E c \in Callers :
        /\ prepare[c].pc = "done"
        /\ prepare[c].result # prepare[c].t
        /\ heap[prepare[c].t].gasLimit = Some(7)
        /\ heap[prepare[c].t].storageLimit = Null
        /\ heap[prepare[c].t].recipient = "tz1other"
        /\ heap[prepare[c].result].gasLimit = Some(20)
        /\ heap[prepare[c].result].storageLimit = Some(300)
        /\ heap[prepare[c].result].recipient = "tz1other"

=============================================================================
